---- MODULE Spec2Model ----
(***************************************************************************)
(* The signaling and peer-connection orchestration of the WatchParty       *)
(* client, src/frontend/src/App.js (a React function component).           *)
(*                                                                         *)
(* React semantics the model keeps:                                        *)
(*  - every render of App() creates fresh closures over that render's      *)
(*    state values; the socket handlers are registered once, by            *)
(*    useEffect(..., []) at App.js:50-132, so they (and the helper         *)
(*    functions they call: startLocalMedia, createPeerConnection,          *)
(*    handleOffer, handleAnswer, handleIceCandidate,                       *)
(*    cleanupPeerConnection) read the state values of the FIRST render:    *)
(*    socket = null, localStream = null, peerConnections = {} (the         *)
(*    useState initial values at App.js:23-35);                            *)
(*  - state setters are stable, and a functional update                    *)
(*    (setX(prev => ...)) is applied to the current value;                 *)
(*  - functions run from the rendered buttons (toggleVideo, toggleAudio,   *)
(*    startScreenShare, stopScreenShare) are the latest render's closures  *)
(*    and read the current state;                                          *)
(*  - an async function runs synchronously up to its first await and is    *)
(*    resumed later as a step of its own.                                  *)
(***************************************************************************)
EXTENDS Integers, Sequences, FiniteSets, TLC

VARIABLES
    isInRoom,         \* App.js:28, per client
    participants,     \* App.js:29, per client: id -> participant record
    localStream,      \* App.js:30, per client: NoStream or a camera stream
    remoteStreams,    \* App.js:31, per client: the ids that have a remote stream
    peerConnections,  \* App.js:32, per client: id -> index of its RTCPeerConnection in pcs
    pcs,              \* per client: every RTCPeerConnection constructed so far (App.js:153)
    isVideoEnabled,   \* App.js:33
    isAudioEnabled,   \* App.js:34
    isScreenSharing,  \* App.js:35
    tasks,            \* per client: suspended async continuations (awaits)
    screenTracks,     \* per client: live screen video tracks with onended set (App.js:340)
    members,          \* server: the ids in the room
    gone,             \* server: the ids that disconnected
    roomAtJoin,       \* server: per id, the ids that were in the room when it joined
    inbox,            \* per client: server -> client events in flight, in order
    last              \* the step taken last: what ran, with what, what it emitted

vars == <<isInRoom, participants, localStream, remoteStreams, peerConnections, pcs,
          isVideoEnabled, isAudioEnabled, isScreenSharing, tasks, screenTracks,
          members, gone, roomAtJoin, inbox, last>>

clientVars == <<isInRoom, participants, localStream, remoteStreams, peerConnections, pcs,
                isVideoEnabled, isAudioEnabled, isScreenSharing, tasks, screenTracks>>

serverVars == <<members, gone, roomAtJoin, inbox>>

-----------------------------------------------------------------------------
(* Bounds *)

\* RTCPeerConnection objects one client constructs in a run
MaxPcs == 2

\* ICE candidates one connection accepts in a run
MaxIce == 2

\* screen/camera acquisitions of the media controller suspended at once
MaxShareTasks == 1

\* screen captures live at once
MaxScreenTracks == 1

\* the socket ids of the connections; each is a client and a participant id
Clients == {"A", "B", "C"}

\* the client whose event handling Spec explores against an arbitrary server
Me == "A"

Others(c) == Clients \ {c}

Candidates == {"cand1", "cand2"}

-----------------------------------------------------------------------------
(* Values *)

\* localStream === null
NoStream == [src |-> "null", videoOn |-> FALSE, audioOn |-> FALSE]
NoSocket == "null"
TheSocket == "socket"
NoId == "-"

EmptyMap == [x \in {} |-> 0]

Extend(f, k, v) == [x \in (DOMAIN f) \cup {k} |-> IF x = k THEN v ELSE f[x]]

Remove(f, k) == [x \in (DOMAIN f) \ {k} |-> f[x]]

Track(src, kind) == [src |-> src, kind |-> kind]

\* getUserMedia({video: true, audio: true}): one video and one audio track, both enabled
CameraStream == [src |-> "camera", videoOn |-> TRUE, audioOn |-> TRUE]

\* localStream.getTracks()
TracksOf(stream) ==
    IF stream = NoStream THEN {}
    ELSE {Track(stream.src, "video"), Track(stream.src, "audio")}

\* { name: data.user_name, video_enabled: true, audio_enabled: true }
JoinedParticipant == [name |-> "n", video_enabled |-> TRUE, audio_enabled |-> TRUE]

\* the participant maps a room_joined may carry for client c: any set of the
\* other ids, each with its media on (a flag that is off is the same record a
\* user_video_toggle / user_audio_toggle leaves)
ParticipantMaps(c) == {[x \in S |-> JoinedParticipant] : S \in SUBSET Others(c)}

-----------------------------------------------------------------------------
(* The closure of the socket handlers: the first render's state *)

\* socket as the handlers see it: useState(null)
EffectSocket == NoSocket

\* localStream as the handlers see it: useState(null)
EffectLocalStream(c) == NoStream

\* peerConnections as the handlers see it: useState({})
EffectPeerConnections(c) == EmptyMap

\* socket as the functions run from the rendered buttons see it: setSocket(newSocket)
RenderSocket == TheSocket

\* socket.emit(event) through socket s: the events sent, and whether the call threw
\* (null.emit is a TypeError)
Emit(s, event) ==
    IF s = NoSocket THEN [emitted |-> <<>>, thrown |-> TRUE]
    ELSE [emitted |-> <<event>>, thrown |-> FALSE]

Step(c, type, id, arg, emitted, thrown) ==
    [client |-> c, type |-> type, id |-> id, arg |-> arg,
     again |-> (last.client = c /\ last.type = type /\ last.id = id),
     emitted |-> emitted, thrown |-> thrown]

-----------------------------------------------------------------------------
Init ==
    /\ isInRoom = [c \in Clients |-> FALSE]
    /\ participants = [c \in Clients |-> EmptyMap]
    /\ localStream = [c \in Clients |-> NoStream]
    /\ remoteStreams = [c \in Clients |-> {}]
    /\ peerConnections = [c \in Clients |-> EmptyMap]
    /\ pcs = [c \in Clients |-> <<>>]
    /\ isVideoEnabled = [c \in Clients |-> TRUE]
    /\ isAudioEnabled = [c \in Clients |-> TRUE]
    /\ isScreenSharing = [c \in Clients |-> FALSE]
    /\ tasks = [c \in Clients |-> {}]
    /\ screenTracks = [c \in Clients |-> {}]
    /\ members = {}
    /\ gone = {}
    /\ roomAtJoin = [c \in Clients |-> {}]
    /\ inbox = [c \in Clients |-> <<>>]
    /\ last = [client |-> NoId, type |-> "mount", id |-> NoId, arg |-> NoId,
               again |-> FALSE, emitted |-> <<>>, thrown |-> FALSE]

-----------------------------------------------------------------------------
(* RTCPeerConnection objects and suspended continuations *)

Task(at, pc, ids, snap) == [at |-> at, pc |-> pc, ids |-> ids, snap |-> snap]

ShareTasks(c) == {t \in tasks[c] : t.at \in {"getDisplayMedia", "getUserMedia"}}

\* Object.values(peerConnections): the connection objects a table refers to
Values(map) == {map[x] : x \in DOMAIN map}

\* new RTCPeerConnection(rtcConfig) followed by the addTrack loop over the
\* handlers' localStream
NewPc(c, participantId, shouldCreateOffer) ==
    [peer |-> participantId, offerer |-> shouldCreateOffer,
     senders |-> TracksOf(EffectLocalStream(c)),
     localDesc |-> "none", remoteDesc |-> "none", ice |-> <<>>, closed |-> FALSE]

\* createPeerConnection up to its first await: st holds the client's pcs, its
\* peerConnections table (map) and its suspended continuations (tasks)
createPeerConnection(st, c, participantId, shouldCreateOffer) ==
    LET i == Len(st.pcs) + 1 IN
    [pcs |-> Append(st.pcs, NewPc(c, participantId, shouldCreateOffer)),
     map |-> Extend(st.map, participantId, i),
     tasks |-> IF shouldCreateOffer
               THEN st.tasks \cup {Task("createOffer", i, {}, {})}
               ELSE st.tasks]

\* room_joined passing false: the newcomer would wait for offers too
RoomJoinedAsCallee == FALSE

\* createPeerConnection(participantId, true) for each key of data.participants
RoomJoinedShouldCreateOffer == TRUE

\* user_joined passing true: both ends of a pair would offer
UserJoinedAsCaller == TRUE

\* createPeerConnection(data.user_id, false)
UserJoinedShouldCreateOffer == FALSE

RECURSIVE CreateForEach(_, _, _)
CreateForEach(st, c, ids) ==
    IF ids = {} THEN st
    ELSE LET x == CHOOSE y \in ids : TRUE IN
         CreateForEach(createPeerConnection(st, c, x, RoomJoinedShouldCreateOffer),
                       c, ids \ {x})

\* cleanupPeerConnection without its if (pc) guard: pc.close() on undefined throws
cleanupUnguarded(c, participantId) ==
    LET seen == EffectPeerConnections(c)
        found == participantId \in DOMAIN seen
    IN  [pcs |-> IF found
                 THEN [pcs[c] EXCEPT ![seen[participantId]].closed = TRUE]
                 ELSE pcs[c],
         closes |-> IF found THEN {seen[participantId]} ELSE {},
         map |-> IF found THEN Remove(peerConnections[c], participantId)
                 ELSE peerConnections[c],
         streams |-> IF found THEN remoteStreams[c] \ {participantId} ELSE remoteStreams[c],
         thrown |-> ~found]

\* cleanupPeerConnection: the connection is looked up in the handlers'
\* peerConnections; the deletions are functional updates of the current tables
cleanupPeerConnection(c, participantId) ==
    LET seen == EffectPeerConnections(c)
        found == participantId \in DOMAIN seen
    IN  [pcs |-> IF found
                 THEN [pcs[c] EXCEPT ![seen[participantId]].closed = TRUE]
                 ELSE pcs[c],
         closes |-> IF found THEN {seen[participantId]} ELSE {},
         map |-> IF found THEN Remove(peerConnections[c], participantId)
                 ELSE peerConnections[c],
         streams |-> remoteStreams[c] \ {participantId},
         thrown |-> FALSE]

\* a switch that adds the track when no sender of its kind is found
ReplaceOrAddTrack(senders, track) ==
    {s \in senders : s.kind # track.kind} \cup {track}

\* sender.replaceTrack(track) on the sender found by kind, if there is one
ReplaceTrack(senders, track) ==
    IF \E s \in senders : s.kind = track.kind
    THEN {s \in senders : s.kind # track.kind} \cup {track}
    ELSE senders

\* the forEach over Object.values(peerConnections) of startScreenShare and
\* stopScreenShare: replace the tracks of every connection of the captured table
ReplaceAll(cpcs, snap, newTracks) ==
    [i \in DOMAIN cpcs |->
        IF i \in snap
        THEN [cpcs[i] EXCEPT !.senders =
                 LET v == {t \in newTracks : t.kind = "video"}
                     a == {t \in newTracks : t.kind = "audio"}
                     afterV == IF v = {} THEN @ ELSE ReplaceTrack(@, CHOOSE t \in v : TRUE)
                 IN  IF a = {} THEN afterV ELSE ReplaceTrack(afterV, CHOOSE t \in a : TRUE)]
        ELSE cpcs[i]]

-----------------------------------------------------------------------------
(* Socket event handlers (registered once, App.js:58-126) *)

\* newSocket.on('room_joined'), up to the await inside startLocalMedia
OnRoomJoined(c, map) ==
    /\ ~isInRoom[c]
    /\ isInRoom' = [isInRoom EXCEPT ![c] = TRUE]
    /\ participants' = [participants EXCEPT ![c] = map]
    /\ tasks' = [tasks EXCEPT ![c] = @ \cup {Task("startLocalMedia", 0, DOMAIN map, {})}]
    /\ last' = Step(c, "room_joined", NoId, "-", <<>>, FALSE)
    /\ UNCHANGED <<localStream, remoteStreams, peerConnections, pcs, isVideoEnabled,
                   isAudioEnabled, isScreenSharing, screenTracks>>

\* the rest of the room_joined handler, once getUserMedia has settled:
\* startLocalMedia stores the stream or logs the refusal, and the handler goes
\* on to create a connection for every key of data.participants
ResumeRoomJoined(c, t, granted) ==
    /\ t \in tasks[c]
    /\ t.at = "startLocalMedia"
    /\ Len(pcs[c]) + Cardinality(t.ids) <= MaxPcs
    /\ LET st == CreateForEach([pcs |-> pcs[c], map |-> peerConnections[c],
                                tasks |-> tasks[c] \ {t}], c, t.ids)
       IN  /\ pcs' = [pcs EXCEPT ![c] = st.pcs]
           /\ peerConnections' = [peerConnections EXCEPT ![c] = st.map]
           /\ tasks' = [tasks EXCEPT ![c] = st.tasks]
    /\ localStream' = [localStream EXCEPT ![c] = IF granted THEN CameraStream ELSE @]
    /\ last' = Step(c, "startLocalMedia", NoId, IF granted THEN "granted" ELSE "denied",
                    <<>>, FALSE)
    /\ UNCHANGED <<isInRoom, participants, remoteStreams, isVideoEnabled, isAudioEnabled,
                   isScreenSharing, screenTracks>>

\* newSocket.on('user_joined')
OnUserJoined(c, x) ==
    /\ isInRoom[c]
    /\ Len(pcs[c]) < MaxPcs
    /\ participants' = [participants EXCEPT ![c] = Extend(@, x, JoinedParticipant)]
    /\ LET st == createPeerConnection([pcs |-> pcs[c], map |-> peerConnections[c],
                                       tasks |-> tasks[c]], c, x,
                                      UserJoinedShouldCreateOffer)
       IN  /\ pcs' = [pcs EXCEPT ![c] = st.pcs]
           /\ peerConnections' = [peerConnections EXCEPT ![c] = st.map]
           /\ tasks' = [tasks EXCEPT ![c] = st.tasks]
    /\ last' = Step(c, "user_joined", x, "-", <<>>, FALSE)
    /\ UNCHANGED <<isInRoom, localStream, remoteStreams, isVideoEnabled, isAudioEnabled,
                   isScreenSharing, screenTracks>>

\* newSocket.on('user_left')
OnUserLeft(c, x) ==
    /\ isInRoom[c]
    /\ participants' = [participants EXCEPT ![c] = Remove(@, x)]
    /\ LET r == cleanupPeerConnection(c, x)
       IN  /\ pcs' = [pcs EXCEPT ![c] = r.pcs]
           /\ peerConnections' = [peerConnections EXCEPT ![c] = r.map]
           /\ remoteStreams' = [remoteStreams EXCEPT ![c] = r.streams]
           /\ last' = Step(c, "user_left", x,
                           IF r.closes = {} THEN "-" ELSE "closed", <<>>, r.thrown)
    /\ UNCHANGED <<isInRoom, localStream, isVideoEnabled, isAudioEnabled,
                   isScreenSharing, tasks, screenTracks>>

\* newSocket.on('webrtc_offer'): handleOffer up to its first await
OnWebrtcOffer(c, x) ==
    /\ isInRoom[c]
    /\ LET seen == EffectPeerConnections(c)
       IN  tasks' = [tasks EXCEPT ![c] =
                IF x \in DOMAIN seen
                THEN @ \cup {Task("setRemoteDescription", seen[x], {}, {})}
                ELSE @]
    /\ last' = Step(c, "webrtc_offer", x, "-", <<>>, FALSE)
    /\ UNCHANGED <<isInRoom, participants, localStream, remoteStreams, peerConnections,
                   pcs, isVideoEnabled, isAudioEnabled, isScreenSharing, screenTracks>>

\* newSocket.on('webrtc_answer'): handleAnswer up to its await
OnWebrtcAnswer(c, x) ==
    /\ isInRoom[c]
    /\ LET seen == EffectPeerConnections(c)
       IN  tasks' = [tasks EXCEPT ![c] =
                IF x \in DOMAIN seen
                THEN @ \cup {Task("setRemoteAnswer", seen[x], {}, {})}
                ELSE @]
    /\ last' = Step(c, "webrtc_answer", x, "-", <<>>, FALSE)
    /\ UNCHANGED <<isInRoom, participants, localStream, remoteStreams, peerConnections,
                   pcs, isVideoEnabled, isAudioEnabled, isScreenSharing, screenTracks>>

\* handleIceCandidate without its if (pc) guard: addIceCandidate on undefined throws
handleIceCandidateUnguarded(c, fromId, candidate) ==
    LET seen == EffectPeerConnections(c) IN
    IF fromId \notin DOMAIN seen
    THEN [pcs |-> pcs[c], applied |-> FALSE, thrown |-> TRUE]
    ELSE LET pc == pcs[c][seen[fromId]] IN
         IF pc.remoteDesc = "none" \/ pc.closed
         THEN [pcs |-> pcs[c], applied |-> FALSE, thrown |-> TRUE]
         ELSE [pcs |-> [pcs[c] EXCEPT ![seen[fromId]].ice = Append(@, candidate)],
               applied |-> TRUE, thrown |-> FALSE]

\* handleIceCandidate: pc.addIceCandidate(candidate) on the connection the
\* handlers' table has for fromId; RTCPeerConnection rejects a candidate while
\* it has no remote description or is closed
handleIceCandidate(c, fromId, candidate) ==
    LET seen == EffectPeerConnections(c) IN
    IF fromId \notin DOMAIN seen
    THEN [pcs |-> pcs[c], applied |-> FALSE, thrown |-> FALSE]
    ELSE LET pc == pcs[c][seen[fromId]] IN
         IF pc.remoteDesc = "none" \/ pc.closed
         THEN [pcs |-> pcs[c], applied |-> FALSE, thrown |-> TRUE]
         ELSE [pcs |-> [pcs[c] EXCEPT ![seen[fromId]].ice = Append(@, candidate)],
               applied |-> TRUE, thrown |-> FALSE]

\* newSocket.on('webrtc_ice_candidate')
OnIceCandidate(c, x, candidate) ==
    /\ isInRoom[c]
    /\ \A i \in DOMAIN pcs[c] : Len(pcs[c][i].ice) < MaxIce
    /\ LET r == handleIceCandidate(c, x, candidate)
       IN  /\ pcs' = [pcs EXCEPT ![c] = r.pcs]
           /\ last' = Step(c, "webrtc_ice_candidate", x, candidate, <<>>, r.thrown)
    /\ UNCHANGED <<isInRoom, participants, localStream, remoteStreams, peerConnections,
                   isVideoEnabled, isAudioEnabled, isScreenSharing, tasks, screenTracks>>

\* { ...prev[data.user_id], <field>: data.enabled }
Toggled(prev, x, field, enabled) ==
    (field :> enabled) @@ (IF x \in DOMAIN prev THEN prev[x] ELSE EmptyMap)

\* newSocket.on('user_video_toggle')
OnUserVideoToggle(c, x, enabled) ==
    /\ isInRoom[c]
    /\ participants' = [participants EXCEPT ![c] =
                            Extend(@, x, Toggled(@, x, "video_enabled", enabled))]
    /\ last' = Step(c, "user_video_toggle", x, IF enabled THEN "true" ELSE "false",
                    <<>>, FALSE)
    /\ UNCHANGED <<isInRoom, localStream, remoteStreams, peerConnections, pcs,
                   isVideoEnabled, isAudioEnabled, isScreenSharing, tasks, screenTracks>>

\* newSocket.on('user_audio_toggle')
OnUserAudioToggle(c, x, enabled) ==
    /\ isInRoom[c]
    /\ participants' = [participants EXCEPT ![c] =
                            Extend(@, x, Toggled(@, x, "audio_enabled", enabled))]
    /\ last' = Step(c, "user_audio_toggle", x, IF enabled THEN "true" ELSE "false",
                    <<>>, FALSE)
    /\ UNCHANGED <<isInRoom, localStream, remoteStreams, peerConnections, pcs,
                   isVideoEnabled, isAudioEnabled, isScreenSharing, tasks, screenTracks>>

-----------------------------------------------------------------------------
(* Continuations of the negotiation awaits *)

NegotiationSteps == {"createOffer", "setLocalDescription", "setRemoteDescription",
                     "createAnswer", "setLocalAnswer", "setRemoteAnswer"}

\* what resuming continuation t brings about: the connection after it, the
\* continuation that follows (if any), the remote stream delivered to ontrack
\* (if any), what is emitted and whether the async function ends in an
\* uncaught rejection. ok: the awaited RTCPeerConnection call was fulfilled
\* (it is rejected on a closed connection).
Resumed(c, t, ok) ==
    LET pc == pcs[c][t.pc]
        good == ok /\ ~pc.closed
        stop == [pc |-> pc, next |-> {}, stream |-> {}, emitted |-> <<>>, thrown |-> ~good]
    IN  CASE ~good -> stop
          [] t.at = "createOffer" ->
                \* const offer = await pc.createOffer()
                [stop EXCEPT !.next = {Task("setLocalDescription", t.pc, {}, {})}]
          [] t.at = "setLocalDescription" ->
                \* await pc.setLocalDescription(offer); socket.emit('webrtc_offer', ...)
                LET e == Emit(EffectSocket, [type |-> "webrtc_offer", target_id |-> pc.peer])
                IN  [stop EXCEPT !.pc = [pc EXCEPT !.localDesc = "offer"],
                                 !.emitted = e.emitted, !.thrown = e.thrown]
          [] t.at = "setRemoteDescription" ->
                \* await pc.setRemoteDescription(offer): the remote tracks reach pc.ontrack
                [stop EXCEPT !.pc = [pc EXCEPT !.remoteDesc = "offer"],
                             !.stream = {pc.peer},
                             !.next = {Task("createAnswer", t.pc, {}, {})}]
          [] t.at = "createAnswer" ->
                \* const answer = await pc.createAnswer()
                [stop EXCEPT !.next = {Task("setLocalAnswer", t.pc, {}, {})}]
          [] t.at = "setLocalAnswer" ->
                \* await pc.setLocalDescription(answer); socket.emit('webrtc_answer', ...)
                LET e == Emit(EffectSocket, [type |-> "webrtc_answer", target_id |-> pc.peer])
                IN  [stop EXCEPT !.pc = [pc EXCEPT !.localDesc = "answer"],
                                 !.emitted = e.emitted, !.thrown = e.thrown]
          [] t.at = "setRemoteAnswer" ->
                \* await pc.setRemoteDescription(answer)
                [stop EXCEPT !.pc = [pc EXCEPT !.remoteDesc = "answer"],
                             !.stream = {pc.peer}]

\* an awaited step of createPeerConnection, handleOffer or handleAnswer settles
ResumeNegotiation(c, t, ok) ==
    /\ t \in tasks[c]
    /\ t.at \in NegotiationSteps
    /\ LET r == Resumed(c, t, ok)
       IN  /\ pcs' = [pcs EXCEPT ![c][t.pc] = r.pc]
           /\ tasks' = [tasks EXCEPT ![c] = (@ \ {t}) \cup r.next]
           /\ remoteStreams' = [remoteStreams EXCEPT ![c] = @ \cup r.stream]
           /\ last' = Step(c, t.at, pcs[c][t.pc].peer, IF ok THEN "ok" ELSE "rejected",
                           r.emitted, r.thrown)
    /\ UNCHANGED <<isInRoom, participants, localStream, peerConnections, isVideoEnabled,
                   isAudioEnabled, isScreenSharing, screenTracks>>

\* pc.onicecandidate: a connection with a local description gathers a candidate;
\* it is sent only if (event.candidate && socket)
OnLocalIceCandidate(c, i) ==
    /\ i \in DOMAIN pcs[c]
    /\ pcs[c][i].localDesc # "none"
    /\ ~pcs[c][i].closed
    /\ last' = Step(c, "onicecandidate", pcs[c][i].peer, "-",
                    IF EffectSocket = NoSocket THEN <<>>
                    ELSE <<[type |-> "webrtc_ice_candidate", target_id |-> pcs[c][i].peer]>>,
                    FALSE)
    /\ UNCHANGED clientVars

-----------------------------------------------------------------------------
(* Functions run from the rendered controls *)

\* joinRoom: socket.emit('join_room', ...); the form is shown while !isInRoom
JoinRoom(c) ==
    /\ ~isInRoom[c]
    /\ last' = Step(c, "joinRoom", NoId, "-",
                    Emit(RenderSocket, [type |-> "join_room"]).emitted, FALSE)
    /\ UNCHANGED clientVars

\* toggleVideo
ToggleVideo(c) ==
    /\ isInRoom[c]
    /\ IF localStream[c] # NoStream
       THEN /\ localStream' = [localStream EXCEPT ![c].videoOn = ~isVideoEnabled[c]]
            /\ isVideoEnabled' = [isVideoEnabled EXCEPT ![c] = ~isVideoEnabled[c]]
            /\ last' = Step(c, "toggleVideo", NoId, "-",
                            Emit(RenderSocket, [type |-> "toggle_video",
                                                enabled |-> ~isVideoEnabled[c]]).emitted,
                            FALSE)
       ELSE /\ UNCHANGED <<localStream, isVideoEnabled>>
            /\ last' = Step(c, "toggleVideo", NoId, "-", <<>>, FALSE)
    /\ UNCHANGED <<isInRoom, participants, remoteStreams, peerConnections, pcs,
                   isAudioEnabled, isScreenSharing, tasks, screenTracks>>

\* toggleAudio sending the value before the flip
ToggleAudioEventStale(c) == [type |-> "toggle_audio", enabled |-> isAudioEnabled[c]]

\* the event toggleAudio sends
ToggleAudioEvent(c) == [type |-> "toggle_audio", enabled |-> ~isAudioEnabled[c]]

\* toggleAudio
ToggleAudio(c) ==
    /\ isInRoom[c]
    /\ IF localStream[c] # NoStream
       THEN /\ localStream' = [localStream EXCEPT ![c].audioOn = ~isAudioEnabled[c]]
            /\ isAudioEnabled' = [isAudioEnabled EXCEPT ![c] = ~isAudioEnabled[c]]
            /\ last' = Step(c, "toggleAudio", NoId, "-",
                            Emit(RenderSocket, ToggleAudioEvent(c)).emitted, FALSE)
       ELSE /\ UNCHANGED <<localStream, isAudioEnabled>>
            /\ last' = Step(c, "toggleAudio", NoId, "-", <<>>, FALSE)
    /\ UNCHANGED <<isInRoom, participants, remoteStreams, peerConnections, pcs,
                   isVideoEnabled, isScreenSharing, tasks, screenTracks>>

\* startScreenShare up to its await of getDisplayMedia; the button calls it
\* while !isScreenSharing. The continuation keeps this render's peerConnections.
StartScreenShare(c) ==
    /\ isInRoom[c]
    /\ ~isScreenSharing[c]
    /\ Cardinality(ShareTasks(c)) < MaxShareTasks
    /\ Cardinality(screenTracks[c]) < MaxScreenTracks
    /\ tasks' = [tasks EXCEPT ![c] =
                    @ \cup {Task("getDisplayMedia", 0, {}, Values(peerConnections[c]))}]
    /\ last' = Step(c, "startScreenShare", NoId, "-", <<>>, FALSE)
    /\ UNCHANGED <<isInRoom, participants, localStream, remoteStreams, peerConnections,
                   pcs, isVideoEnabled, isAudioEnabled, isScreenSharing, screenTracks>>

\* the tracks of the stream getDisplayMedia({video: true, audio: true}) gives:
\* always a video track, an audio track when system audio is captured
ScreenTracks(capture) ==
    IF capture = "video+audio"
    THEN {Track("screen", "video"), Track("screen", "audio")}
    ELSE {Track("screen", "video")}

\* the rest of startScreenShare once getDisplayMedia has settled
ResumeStartScreenShare(c, t, capture) ==
    /\ t \in tasks[c]
    /\ t.at = "getDisplayMedia"
    /\ tasks' = [tasks EXCEPT ![c] = @ \ {t}]
    /\ IF capture = "denied"
       THEN /\ UNCHANGED <<pcs, isScreenSharing, screenTracks>>
            /\ last' = Step(c, "getDisplayMedia", NoId, capture, <<>>, FALSE)
       ELSE /\ pcs' = [pcs EXCEPT ![c] = ReplaceAll(@, t.snap, ScreenTracks(capture))]
            /\ isScreenSharing' = [isScreenSharing EXCEPT ![c] = TRUE]
            /\ screenTracks' = [screenTracks EXCEPT ![c] = @ \cup {t.snap}]
            /\ last' = Step(c, "getDisplayMedia", NoId, capture,
                            Emit(RenderSocket, [type |-> "start_screen_share"]).emitted,
                            FALSE)
    /\ UNCHANGED <<isInRoom, participants, localStream, remoteStreams, peerConnections,
                   isVideoEnabled, isAudioEnabled>>

\* stopScreenShare up to its await of getUserMedia; the button calls it while
\* isScreenSharing
StopScreenShare(c) ==
    /\ isInRoom[c]
    /\ isScreenSharing[c]
    /\ Cardinality(ShareTasks(c)) < MaxShareTasks
    /\ tasks' = [tasks EXCEPT ![c] =
                    @ \cup {Task("getUserMedia", 0, {}, Values(peerConnections[c]))}]
    /\ last' = Step(c, "stopScreenShare", NoId, "-", <<>>, FALSE)
    /\ UNCHANGED <<isInRoom, participants, localStream, remoteStreams, peerConnections,
                   pcs, isVideoEnabled, isAudioEnabled, isScreenSharing, screenTracks>>

\* videoTrack.onended = () => { stopScreenShare(); }: the capture is ended from
\* outside; the stopScreenShare called is the one of the render in which
\* startScreenShare was called, with that render's peerConnections
ScreenTrackEnded(c, snap) ==
    /\ snap \in screenTracks[c]
    /\ Cardinality(ShareTasks(c)) < MaxShareTasks
    /\ screenTracks' = [screenTracks EXCEPT ![c] = @ \ {snap}]
    /\ tasks' = [tasks EXCEPT ![c] = @ \cup {Task("getUserMedia", 0, {}, snap)}]
    /\ last' = Step(c, "onended", NoId, "-", <<>>, FALSE)
    /\ UNCHANGED <<isInRoom, participants, localStream, remoteStreams, peerConnections,
                   pcs, isVideoEnabled, isAudioEnabled, isScreenSharing>>

\* the rest of stopScreenShare once getUserMedia has settled
ResumeStopScreenShare(c, t, granted) ==
    /\ t \in tasks[c]
    /\ t.at = "getUserMedia"
    /\ tasks' = [tasks EXCEPT ![c] = @ \ {t}]
    /\ IF ~granted
       THEN /\ UNCHANGED <<pcs, localStream, isScreenSharing>>
            /\ last' = Step(c, "getUserMedia", NoId, "denied", <<>>, FALSE)
       ELSE /\ pcs' = [pcs EXCEPT ![c] = ReplaceAll(@, t.snap, TracksOf(CameraStream))]
            /\ localStream' = [localStream EXCEPT ![c] = CameraStream]
            /\ isScreenSharing' = [isScreenSharing EXCEPT ![c] = FALSE]
            /\ last' = Step(c, "getUserMedia", NoId, "granted",
                            Emit(RenderSocket, [type |-> "stop_screen_share"]).emitted,
                            FALSE)
    /\ UNCHANGED <<isInRoom, participants, remoteStreams, peerConnections,
                   isVideoEnabled, isAudioEnabled, screenTracks>>

-----------------------------------------------------------------------------
(* One client against an arbitrary server: every event the protocol has may *)
(* arrive, for any id, once the client is in the room                       *)

RoomJoined == \E m \in ParticipantMaps(Me) : OnRoomJoined(Me, m) /\ UNCHANGED serverVars

LocalMediaSettled ==
    \E t \in tasks[Me], granted \in BOOLEAN :
        ResumeRoomJoined(Me, t, granted) /\ UNCHANGED serverVars

UserJoined == \E x \in Others(Me) : OnUserJoined(Me, x) /\ UNCHANGED serverVars

UserLeft == \E x \in Others(Me) : OnUserLeft(Me, x) /\ UNCHANGED serverVars

WebrtcOffer == \E x \in Others(Me) : OnWebrtcOffer(Me, x) /\ UNCHANGED serverVars

WebrtcAnswer == \E x \in Others(Me) : OnWebrtcAnswer(Me, x) /\ UNCHANGED serverVars

WebrtcIceCandidate ==
    \E x \in Others(Me), k \in Candidates :
        OnIceCandidate(Me, x, k) /\ UNCHANGED serverVars

UserVideoToggle ==
    \E x \in Others(Me), e \in BOOLEAN : OnUserVideoToggle(Me, x, e) /\ UNCHANGED serverVars

UserAudioToggle ==
    \E x \in Others(Me), e \in BOOLEAN : OnUserAudioToggle(Me, x, e) /\ UNCHANGED serverVars

NegotiationSettled ==
    \E t \in tasks[Me], ok \in BOOLEAN :
        ResumeNegotiation(Me, t, ok) /\ UNCHANGED serverVars

LocalIceCandidate ==
    \E i \in DOMAIN pcs[Me] : OnLocalIceCandidate(Me, i) /\ UNCHANGED serverVars

ClickJoin == JoinRoom(Me) /\ UNCHANGED serverVars

ClickVideo == ToggleVideo(Me) /\ UNCHANGED serverVars

ClickAudio == ToggleAudio(Me) /\ UNCHANGED serverVars

ClickStartShare == StartScreenShare(Me) /\ UNCHANGED serverVars

ClickStopShare == StopScreenShare(Me) /\ UNCHANGED serverVars

DisplayMediaSettled ==
    \E t \in tasks[Me], capture \in {"denied", "video", "video+audio"} :
        ResumeStartScreenShare(Me, t, capture) /\ UNCHANGED serverVars

CaptureEnded ==
    \E snap \in screenTracks[Me] : ScreenTrackEnded(Me, snap) /\ UNCHANGED serverVars

CameraSettled ==
    \E t \in tasks[Me], granted \in BOOLEAN :
        ResumeStopScreenShare(Me, t, granted) /\ UNCHANGED serverVars

\* the Peer Link Manager: membership and negotiation events
Next ==
    \/ ClickJoin
    \/ RoomJoined
    \/ LocalMediaSettled
    \/ UserJoined
    \/ UserLeft
    \/ WebrtcOffer
    \/ WebrtcAnswer
    \/ WebrtcIceCandidate
    \/ NegotiationSettled
    \/ LocalIceCandidate

Spec == Init /\ [][Next]_vars

\* the Room Session State: membership and media toggles
SessionNext ==
    \/ RoomJoined
    \/ LocalMediaSettled
    \/ UserJoined
    \/ UserLeft
    \/ UserVideoToggle
    \/ UserAudioToggle
    \/ ClickVideo
    \/ ClickAudio

SessionSpec == Init /\ [][SessionNext]_vars

\* the Local Media Source Controller: links being created and negotiated, and
\* source switches
MediaNext ==
    \/ RoomJoined
    \/ LocalMediaSettled
    \/ UserJoined
    \/ NegotiationSettled
    \/ ClickStartShare
    \/ ClickStopShare
    \/ DisplayMediaSettled
    \/ CaptureEnded
    \/ CameraSettled

MediaSpec == Init /\ [][MediaNext]_vars

-----------------------------------------------------------------------------
(* The room: every client runs the code above; the signaling server relays  *)
(* the membership events, each connection joining once under its own id     *)

Event(type, id, map) == [type |-> type, id |-> id, map |-> map]

\* the server handles join_room from c: c gets room_joined with the map of the
\* participants already there, each of them gets user_joined for c
ServerJoin(c) ==
    /\ c \notin members
    /\ c \notin gone
    /\ members' = members \cup {c}
    /\ roomAtJoin' = [roomAtJoin EXCEPT ![c] = members]
    /\ inbox' = [d \in Clients |->
                    IF d = c
                    THEN Append(inbox[d],
                                Event("room_joined", NoId, [x \in members |-> JoinedParticipant]))
                    ELSE IF d \in members
                    THEN Append(inbox[d], Event("user_joined", c, EmptyMap))
                    ELSE inbox[d]]
    /\ UNCHANGED gone

\* the server handles the disconnection of c: the others get user_left for c
ServerLeave(c) ==
    /\ c \in members
    /\ members' = members \ {c}
    /\ gone' = gone \cup {c}
    /\ inbox' = [d \in Clients |->
                    IF d = c THEN <<>>
                    ELSE IF d \in members
                    THEN Append(inbox[d], Event("user_left", c, EmptyMap))
                    ELSE inbox[d]]
    /\ UNCHANGED roomAtJoin

Delivered(c, type) ==
    /\ c \notin gone
    /\ inbox[c] # <<>>
    /\ Head(inbox[c]).type = type
    /\ inbox' = [inbox EXCEPT ![c] = Tail(@)]
    /\ UNCHANGED <<members, gone, roomAtJoin>>

MeshJoin == \E c \in Clients : JoinRoom(c) /\ ServerJoin(c)

\* the page of client c is closed: its component and everything it holds go
Unmount(c) ==
    /\ isInRoom' = [isInRoom EXCEPT ![c] = FALSE]
    /\ participants' = [participants EXCEPT ![c] = EmptyMap]
    /\ localStream' = [localStream EXCEPT ![c] = NoStream]
    /\ remoteStreams' = [remoteStreams EXCEPT ![c] = {}]
    /\ peerConnections' = [peerConnections EXCEPT ![c] = EmptyMap]
    /\ pcs' = [pcs EXCEPT ![c] = <<>>]
    /\ tasks' = [tasks EXCEPT ![c] = {}]
    /\ screenTracks' = [screenTracks EXCEPT ![c] = {}]
    /\ isVideoEnabled' = [isVideoEnabled EXCEPT ![c] = TRUE]
    /\ isAudioEnabled' = [isAudioEnabled EXCEPT ![c] = TRUE]
    /\ isScreenSharing' = [isScreenSharing EXCEPT ![c] = FALSE]

MeshLeave ==
    \E c \in Clients :
        /\ ServerLeave(c)
        /\ Unmount(c)
        /\ last' = Step(c, "disconnect", NoId, "-", <<>>, FALSE)

MeshRoomJoined ==
    \E c \in Clients : Delivered(c, "room_joined") /\ OnRoomJoined(c, Head(inbox[c]).map)

MeshUserJoined ==
    \E c \in Clients : Delivered(c, "user_joined") /\ OnUserJoined(c, Head(inbox[c]).id)

MeshUserLeft ==
    \E c \in Clients : Delivered(c, "user_left") /\ OnUserLeft(c, Head(inbox[c]).id)

MeshLocalMediaSettled ==
    \E c \in Clients \ gone : \E t \in tasks[c], granted \in BOOLEAN :
        ResumeRoomJoined(c, t, granted) /\ UNCHANGED serverVars

MeshNegotiationSettled ==
    \E c \in Clients \ gone : \E t \in tasks[c] :
        ResumeNegotiation(c, t, TRUE) /\ UNCHANGED serverVars

MeshNext ==
    \/ MeshJoin
    \/ MeshLeave
    \/ MeshRoomJoined
    \/ MeshUserJoined
    \/ MeshUserLeft
    \/ MeshLocalMediaSettled
    \/ MeshNegotiationSettled

MeshSpec == Init /\ [][MeshNext]_vars

-----------------------------------------------------------------------------
(* Properties of the Peer Link Manager, checked under Spec *)

Range(q) == {q[i] : i \in DOMAIN q}

\* the connection the client's table holds for id x
Link(c, x) == pcs[c][peerConnections[c][x]]

\* the candidates handleIceCandidate holds back for a link until its remote
\* description is set: the code has no such queue
Buffered(c, x) == <<>>

\* C1: every user_joined and every user_left event keeps the key set of
\* peerConnections equal to the key set of participants (they start equal, both
\* empty, so they are equal after any sequence of these events)
C1_LinksMatchParticipants ==
    [][(/\ last'.type \in {"user_joined", "user_left"}
        /\ DOMAIN peerConnections[Me] = DOMAIN participants[Me])
       => DOMAIN peerConnections'[Me] = DOMAIN participants'[Me]]_vars

\* C4: a webrtc_ice_candidate received from a participant that has a link is
\* never dropped: once handled it is applied to the link's connection (last in
\* arrival order) or, while the link has no remote description, held for it
C4_CandidateKept ==
    (last.type = "webrtc_ice_candidate" /\ last.id \in DOMAIN peerConnections[Me])
    => LET pc == Link(Me, last.id)
       IN  /\ pc.remoteDesc # "none"
                => (pc.ice # <<>> /\ pc.ice[Len(pc.ice)] = last.arg)
           /\ pc.remoteDesc = "none"
                => (pc.ice = <<>> /\ last.arg \in Range(Buffered(Me, last.id)))

\* C5: user_left never raises an error, and a user_left processed right after a
\* user_left for the same id leaves participants, peerConnections and
\* remoteStreams as they were and closes no connection
C5_TeardownIdempotent ==
    [][last'.type = "user_left"
       => /\ ~last'.thrown
          /\ last'.again
                => /\ participants' = participants
                   /\ peerConnections' = peerConnections
                   /\ remoteStreams' = remoteStreams
                   /\ pcs' = pcs
                   /\ last'.arg # "closed"]_vars

\* C5 witness: user_left has been processed twice in a row for an id for which
\* a connection was created
C5_Witness ==
    /\ last.type = "user_left"
    /\ last.again
    /\ \E i \in DOMAIN pcs[Me] : pcs[Me][i].peer = last.id

\* C9: when the offer of a link created for room_joined has been set as local
\* description, exactly one webrtc_offer is emitted, addressed to the link's id;
\* a user_joined emits nothing and starts no offer
C9_OfferSentPerLink ==
    /\ (last.type = "setLocalDescription" /\ last.arg = "ok")
        => last.emitted = <<[type |-> "webrtc_offer", target_id |-> last.id]>>
    /\ last.type = "user_joined" => last.emitted = <<>>

\* C10: a webrtc_offer from an id the client holds a link for is applied to
\* that link: once the handler has run, the link has the offer as remote
\* description or setRemoteDescription is under way on it
C10_OfferApplied ==
    (last.type = "webrtc_offer" /\ last.id \in DOMAIN peerConnections[Me])
    => \/ Link(Me, last.id).remoteDesc = "offer"
       \/ \E t \in tasks[Me] :
            t.at = "setRemoteDescription" /\ t.pc = peerConnections[Me][last.id]

-----------------------------------------------------------------------------
(* Role assignment, checked under MeshSpec *)

\* the connections client c has created for id x
LinksTo(c, x) == {i \in DOMAIN pcs[c] : pcs[c][i].peer = x}

Pending(c, type, id) ==
    \E k \in DOMAIN inbox[c] : inbox[c][k].type = type /\ inbox[c][k].id = id

\* C2 (as amended): where x was in the room when y joined, y (the newcomer) is
\* the Caller toward x, its link created with shouldCreateOffer = true by its
\* room_joined handler once startLocalMedia has settled, and x is the Callee
\* toward y, its link created with shouldCreateOffer = false when it handles
\* y's user_joined
C2_NewcomerIsCaller ==
    \A y \in Clients : \A x \in roomAtJoin[y] :
        /\ \A i \in LinksTo(y, x) : pcs[y][i].offerer
        /\ \A i \in LinksTo(x, y) : ~pcs[x][i].offerer
        /\ (isInRoom[y] /\ ~\E t \in tasks[y] : t.at = "startLocalMedia")
              => x \in DOMAIN peerConnections[y]
        /\ (~isInRoom[y] \/ \E t \in tasks[y] : t.at = "startLocalMedia")
              => LinksTo(y, x) = {}
        /\ (x \notin gone /\ ~Pending(x, "user_joined", y))
              => y \in DOMAIN peerConnections[x]
        /\ Pending(x, "user_joined", y) => LinksTo(x, y) = {}

\* C2 witness: A, B and C joined in that order and every client holds its two links
C2_Witness ==
    /\ roomAtJoin["A"] = {}
    /\ roomAtJoin["B"] = {"A"}
    /\ roomAtJoin["C"] = {"A", "B"}
    /\ \A c \in Clients : DOMAIN peerConnections[c] = Others(c)
    /\ ~pcs["A"][peerConnections["A"]["B"]].offerer
    /\ ~pcs["A"][peerConnections["A"]["C"]].offerer
    /\ pcs["B"][peerConnections["B"]["A"]].offerer
    /\ ~pcs["B"][peerConnections["B"]["C"]].offerer

\* C2 as claimed: where x was in the room when y joined, x's link to y is the
\* Caller's and y's link to x is the Callee's
C2_PresentIsCaller ==
    \A y \in Clients : \A x \in roomAtJoin[y] :
        /\ \A i \in LinksTo(x, y) : pcs[x][i].offerer
        /\ \A i \in LinksTo(y, x) : ~pcs[y][i].offerer

\* C3: whenever two clients have each created a link for the other, one was
\* created with shouldCreateOffer = true and the other with false
C3_ComplementaryRoles ==
    \A a \in Clients : \A b \in Others(a) :
        \A i \in LinksTo(a, b) : \A j \in LinksTo(b, a) :
            pcs[a][i].offerer # pcs[b][j].offerer

\* C3 witness: two clients hold a link for each other
C3_Witness ==
    \E a \in Clients : \E b \in Others(a) :
        b \in DOMAIN peerConnections[a] /\ a \in DOMAIN peerConnections[b]

-----------------------------------------------------------------------------
(* The Local Media Source Controller, checked under MediaSpec *)

Kinds(senders) == {s.kind : s \in senders}

-----------------------------------------------------------------------------
(* The Room Session State, checked under SessionSpec *)

\* C8: toggleAudio (toggleVideo), with local media started, flips the flag,
\* emits exactly one toggle_audio (toggle_video) event carrying the new value
\* and nothing else, and leaves peerConnections and every connection as they
\* were; a user_audio_toggle (user_video_toggle) received for an id records the
\* value it carries for that id in participants and leaves peerConnections,
\* the connections and remoteStreams as they were
C8_ToggleFrame ==
    [][/\ (last'.type = "toggleAudio" /\ localStream[Me] # NoStream)
            => /\ isAudioEnabled'[Me] = ~isAudioEnabled[Me]
               /\ last'.emitted = <<[type |-> "toggle_audio",
                                     enabled |-> isAudioEnabled'[Me]]>>
       /\ (last'.type = "toggleVideo" /\ localStream[Me] # NoStream)
            => /\ isVideoEnabled'[Me] = ~isVideoEnabled[Me]
               /\ last'.emitted = <<[type |-> "toggle_video",
                                     enabled |-> isVideoEnabled'[Me]]>>
       /\ last'.type = "user_audio_toggle"
            => /\ last'.id \in DOMAIN participants'[Me]
               /\ participants'[Me][last'.id].audio_enabled = (last'.arg = "true")
       /\ last'.type = "user_video_toggle"
            => /\ last'.id \in DOMAIN participants'[Me]
               /\ participants'[Me][last'.id].video_enabled = (last'.arg = "true")
       /\ last'.type \in {"toggleAudio", "toggleVideo", "user_audio_toggle",
                          "user_video_toggle"}
            => /\ peerConnections' = peerConnections
               /\ pcs' = pcs
               /\ remoteStreams' = remoteStreams
               /\ tasks' = tasks
               /\ ~last'.thrown]_vars

\* C8 witness: this client has switched its own audio off, emitting the event,
\* and has since recorded audio off for a participant it holds a link for
C8_Witness ==
    /\ last.type = "user_audio_toggle"
    /\ last.arg = "false"
    /\ last.id \in DOMAIN peerConnections[Me]
    /\ participants[Me][last.id].audio_enabled = FALSE
    /\ ~isAudioEnabled[Me]
    /\ localStream[Me] # NoStream

-----------------------------------------------------------------------------
(* Link creation and teardown, checked under Spec *)

\* the connections of client c that are suspended in createOffer
Offering(c) == {t.pc : t \in {u \in tasks[c] : u.at = "createOffer"}}

\* C11: a link created once local media is started carries, from its creation
\* and before its offer or answer is built, every track of the active local
\* source as outgoing track: the link of a user_joined handled with the camera
\* started, and every link the room_joined handler creates once startLocalMedia
\* has delivered the camera stream
C11_TracksAttached ==
    /\ (last.type = "user_joined" /\ localStream[Me] # NoStream)
          => TracksOf(localStream[Me]) \subseteq Link(Me, last.id).senders
    /\ (last.type = "startLocalMedia" /\ last.arg = "granted")
          => \A i \in Offering(Me) : TracksOf(localStream[Me]) \subseteq pcs[Me][i].senders

\* C12: once user_left for an id has been processed, every connection created
\* for that id is closed and the id is in neither peerConnections nor
\* remoteStreams
C12_TeardownComplete ==
    last.type = "user_left"
    => /\ \A i \in LinksTo(Me, last.id) : pcs[Me][i].closed
       /\ last.id \notin DOMAIN peerConnections[Me]
       /\ last.id \notin remoteStreams[Me]

\* C13: a user_joined or webrtc_offer for an id that has a link in
\* peerConnections is ignored: no connection is constructed, the table and
\* every connection stay as they are, and nothing is emitted
C13_DuplicateIgnored ==
    [][(/\ last'.type \in {"user_joined", "webrtc_offer"}
        /\ last'.id \in DOMAIN peerConnections[Me])
       => /\ pcs' = pcs
          /\ peerConnections' = peerConnections
          /\ last'.emitted = <<>>]_vars

\* C14: a negotiation step of the link of an id that resumes right after
\* user_left for that id was processed (so it was suspended when the user_left
\* was handled) is discarded: it leaves the connection as it was, is followed
\* by no further step and emits nothing
C14_ResumedStepDiscarded ==
    [][(/\ last.type = "user_left"
        /\ last'.type \in NegotiationSteps
        /\ last'.id = last.id)
       => /\ pcs' = pcs
          /\ tasks'[Me] \subseteq tasks[Me]
          /\ peerConnections' = peerConnections
          /\ last'.emitted = <<>>]_vars

\* C15: when an awaited negotiation call of the link of an id is rejected, the
\* connections of that id are closed and the id leaves peerConnections, and
\* the connections and table entries of every other id stay as they were
C15_RejectedLinkRemoved ==
    [][(last'.type \in NegotiationSteps /\ last'.arg = "rejected")
       => /\ \A i \in DOMAIN pcs'[Me] : pcs'[Me][i].peer = last'.id => pcs'[Me][i].closed
          /\ last'.id \notin DOMAIN peerConnections'[Me]
          /\ \A i \in DOMAIN pcs[Me] : pcs[Me][i].peer # last'.id => pcs'[Me][i] = pcs[Me][i]
          /\ \A x \in DOMAIN peerConnections[Me] \ {last'.id} :
                /\ x \in DOMAIN peerConnections'[Me]
                /\ peerConnections'[Me][x] = peerConnections[Me][x]]_vars

\* C17: a webrtc_ice_candidate from an id that has no link changes nothing,
\* creates no connection, emits nothing and raises no error
C17_StaleCandidateDropped ==
    [][(/\ last'.type = "webrtc_ice_candidate"
        /\ last'.id \notin DOMAIN peerConnections[Me])
       => /\ clientVars' = clientVars
          /\ last'.emitted = <<>>
          /\ ~last'.thrown]_vars

\* C17 witness: a candidate has been handled from an id without a link while
\* the client holds a link for another id
C17_Witness ==
    /\ last.type = "webrtc_ice_candidate"
    /\ last.id \notin DOMAIN peerConnections[Me]
    /\ LinksTo(Me, last.id) = {}
    /\ DOMAIN peerConnections[Me] # {}

\* C19: the room_joined handler, resuming from startLocalMedia, creates no
\* connection and no table entry for an id that is no longer in participants
\* (it was in the participant map and its user_left was processed while the
\* handler was suspended), and starts no offer toward it
C19_NoLinkForDeparted ==
    [][last'.type = "startLocalMedia"
       => \A x \in Others(Me) \ DOMAIN participants[Me] :
            /\ \A i \in DOMAIN pcs'[Me] : pcs'[Me][i].peer = x => i \in DOMAIN pcs[Me]
            /\ x \in DOMAIN peerConnections'[Me] => x \in DOMAIN peerConnections[Me]]_vars

-----------------------------------------------------------------------------
(* Acquisition and end of capture, checked under MediaSpec *)

\* C16: when the screen video track has ended and the camera acquisition of
\* the stopScreenShare it triggers is granted, the client is back on the
\* camera: isScreenSharing is false, stop_screen_share is emitted and every
\* link of the table, those created after startScreenShare was invoked
\* included, has the camera video track as outgoing video track
C16_CaptureEndRestoresCamera ==
    [][(last.type = "onended" /\ last'.type = "getUserMedia" /\ last'.arg = "granted")
       => /\ ~isScreenSharing'[Me]
          /\ last'.emitted = <<[type |-> "stop_screen_share"]>>
          /\ \A x \in DOMAIN peerConnections[Me] :
                Track("camera", "video") \in pcs'[Me][peerConnections'[Me][x]].senders]_vars

\* C18: when getUserMedia is refused in the room_joined handler the join
\* aborts: the handler creates no connection and no table entry, starts no
\* offer, and the client is not in the room afterwards; when getDisplayMedia is
\* refused in startScreenShare nothing changes: isScreenSharing, the
\* connections and their outgoing tracks stay as they were and nothing is
\* emitted
C18_AcquisitionDenied ==
    [][/\ (last'.type = "startLocalMedia" /\ last'.arg = "denied")
            => /\ pcs' = pcs
               /\ peerConnections' = peerConnections
               /\ \A t \in tasks'[Me] : t.at # "createOffer"
               /\ ~isInRoom'[Me]
       /\ (last'.type = "getDisplayMedia" /\ last'.arg = "denied")
            => /\ isScreenSharing' = isScreenSharing
               /\ pcs' = pcs
               /\ peerConnections' = peerConnections
               /\ last'.emitted = <<>>]_vars

-----------------------------------------------------------------------------
(* Participant records, checked under SessionSpec *)

\* C20: a user_video_toggle or user_audio_toggle for an id that is not in
\* participants adds no entry for it
C20_ToggleAddsNoParticipant ==
    [][(/\ last'.type \in {"user_video_toggle", "user_audio_toggle"}
        /\ last'.id \notin DOMAIN participants[Me])
       => last'.id \notin DOMAIN participants'[Me]]_vars

====
